---- MODULE Spec2Model ----
(***************************************************************************)
(* Model of the nearfs-upload block pipeline: the existence prober         *)
(* (isAlreadyUploaded), the batch packer (splitOnBatches), uploadBlocks    *)
(* with its senders, the tree builder of uploadFiles and the archive path  *)
(* of uploadCAR.                                                           *)
(***************************************************************************)
EXTENDS Integers, Sequences, FiniteSets, TLC

VARIABLES
    retryCount,   \* options.retryCount, shared by every probe of one upload
    probes,       \* probes[p]: the activation of isAlreadyUploaded for block p
    newBlocks,    \* the argument of splitOnBatches
    pos,          \* number of items of newBlocks the for-of loop has consumed
    batches,      \* the `batches` array of splitOnBatches
    splitPc,      \* "idle" | "loop" | "returned"
    inBlocks,     \* the `blocks` argument of uploadBlocks
    upPc,         \* "idle" | "probing" | "sending" | "done" | "rejected"
    senderKind,   \* who supplied options.signAndSendTransaction
    calls,        \* the calls of options.signAndSendTransaction, in order
    currentBlocks,
    totalBlocks,
    reports,      \* the arguments of the statusCallback calls, in order
    lastError,    \* what the last settled sender call met
    upError,      \* what uploadBlocks rejected with
    omitted,      \* the names of the options the caller did not give
    entry,        \* the exported function called: "none" | "uploadBlocks" |
                  \* "uploadFiles" | "uploadCAR"
    entryPc,      \* "idle" | "running" | "resolved" | "rejected"
    entryResult,  \* what the promise of the entry settled with
    files,        \* the `files` argument of uploadFiles
    filePos,      \* number of files the for-of loop of uploadFiles consumed
    rootDir,      \* the tree of uploadFiles
    rootCid,      \* the CID addBlocksForDir(rootDir) returned
    queued,       \* the `blocksToUpload` array of uploadFiles
    treePc,       \* "idle" | "files" | "built" | "thrown"
    car,          \* the decoded `carBuffer` argument of uploadCAR
    carBlocks,    \* the `blocks` of blocksToUpload
    carStatus     \* the `blocksAndStatus` of blocksToUpload, once resolved

splitVars == <<newBlocks, pos, batches, splitPc>>

treeVars == <<files, filePos, rootDir, rootCid, queued, treePc>>

entryVars ==
    <<omitted, entry, entryPc, entryResult, treeVars, car, carBlocks, carStatus>>

uploadVars ==
    <<inBlocks, upPc, senderKind, calls, currentBlocks, totalBlocks, reports,
      lastError, upError, entryVars>>

vars == <<retryCount, probes, splitVars, uploadVars>>

-----------------------------------------------------------------------------
(* Bounds of the model *)

MaxRetry == 3
NumProbes == 2
MaxSplitLen == 8

Last(seq) == seq[Len(seq)]

NoError == [type |-> "none", fce |-> "none", message |-> <<>>]

\* The promise of the entry has not settled.
NoResult == [kind |-> "none", value |-> NoError]

\* The root of uploadFiles before the loop: { name: '', links: [] }.
EmptyRoot == [name |-> "", links |-> <<>>]

NoCid == [version |-> 0, codec |-> "none", hash |-> <<>>]

TreeIdle ==
    /\ files = <<>>
    /\ filePos = 0
    /\ rootDir = EmptyRoot
    /\ rootCid = NoCid
    /\ queued = <<>>
    /\ treePc = "idle"

\* No exported function has been called.
EntryIdle ==
    /\ entry = "none"
    /\ entryPc = "idle"
    /\ entryResult = NoResult
    /\ TreeIdle
    /\ car = <<>>
    /\ carBlocks = <<>>
    /\ carStatus = <<>>

\* No upload is running.
UploadIdle ==
    /\ omitted = {}
    /\ EntryIdle
    /\ inBlocks = <<>>
    /\ upPc = "idle"
    /\ senderKind = "caller"
    /\ calls = <<>>
    /\ currentBlocks = 0
    /\ totalBlocks = 0
    /\ reports = <<>>
    /\ lastError = NoError
    /\ upError = NoError

-----------------------------------------------------------------------------
(* isAlreadyUploaded *)

\* What one `await fetch(...)` can produce: a response with a status, a
\* rejection with an AbortError (the timeout signal fired), or a rejection
\* with any other error.
Responses == {"s200", "s404", "s500", "timeout", "neterr"}

NewProbe ==
    [pc |-> "sleep", i |-> 0, attempts |-> 0, result |-> "pending",
     logs |-> <<>>, history |-> <<>>]

\* Variant of LoopHead with the condition i <= retryCount.
LoopHead_OffByOne(pr) ==
    IF pr.i <= retryCount
    THEN [pr EXCEPT !.pc = "fetch", !.attempts = @ + 1]
    ELSE [pr EXCEPT !.pc = "returned", !.result = "false"]

\* The loop header `i < retryCount`, followed either by the next fetch being
\* issued or by the `return false` after the loop.
LoopHead(pr) ==
    IF pr.i < retryCount
    THEN [pr EXCEPT !.pc = "fetch", !.attempts = @ + 1]
    ELSE [pr EXCEPT !.pc = "returned", !.result = "false"]

\* res.status === 200: log and return true.
On200(pr) ==
    [pr EXCEPT !.pc = "returned", !.result = "true",
               !.logs = Append(@, "exists")]

\* res.status === 404: neither test of the try body fires, the iteration
\* ends and the for statement runs i++ and its condition again.
On404(pr) == LoopHead([pr EXCEPT !.i = @ + 1])

\* Variant of OnOtherStatus whose catch clause does not look at e.name and
\* handles every error as a timeout.
OnOtherStatus_Retried(pr) ==
    LoopHead([pr EXCEPT !.i = @ + 1, !.logs = Append(@, "timeout")])

\* Any other status: the Error thrown in the try body is caught, is no
\* AbortError, and is thrown again to the caller.
OnOtherStatus(pr) == [pr EXCEPT !.pc = "thrown", !.result = "error"]

\* fetch rejected with an AbortError: log, `continue`.
OnAbort(pr) ==
    LoopHead([pr EXCEPT !.i = @ + 1, !.logs = Append(@, "timeout")])

\* fetch rejected with another error: thrown again.
OnFetchError(pr) == [pr EXCEPT !.pc = "thrown", !.result = "error"]

\* Variant of OnResponse without the test for status 200.
OnResponse_Ignores200(pr, r) ==
    LET q == [pr EXCEPT !.history = Append(@, r)] IN
    CASE r = "s200" -> On404(q)
      [] r = "s404" -> On404(q)
      [] r = "s500" -> OnOtherStatus(q)
      [] r = "timeout" -> OnAbort(q)
      [] OTHER -> OnFetchError(q)

\* The code that runs when the awaited fetch settles with r.
OnResponse(pr, r) ==
    LET q == [pr EXCEPT !.history = Append(@, r)] IN
    CASE r = "s200" -> On200(q)
      [] r = "s404" -> On404(q)
      [] r = "s500" -> OnOtherStatus(q)
      [] r = "timeout" -> OnAbort(q)
      [] OTHER -> OnFetchError(q)

-----------------------------------------------------------------------------
(* The probing phase of uploadBlocks *)

Probes == 1..NumProbes

\* Probe p wakes from sleep(p * THROTTLE_MS) and enters isAlreadyUploaded;
\* the timers were set in one synchronous pass with increasing delays, so
\* they fire in index order.
Start(p) ==
    /\ probes[p].pc = "sleep"
    /\ \A q \in Probes : q < p => probes[q].pc # "sleep"
    /\ probes' = [probes EXCEPT ![p] = LoopHead(@)]
    /\ UNCHANGED <<retryCount, newBlocks, pos, batches, splitPc, uploadVars>>

\* Variant of Respond with one timeout signal shared by the whole phase: a
\* timeout ends every pending attempt at once.
Respond_SharedAbort(p, r) ==
    /\ probes[p].pc = "fetch"
    /\ probes' = [q \in Probes |->
                    IF q = p THEN OnResponse(probes[q], r)
                    ELSE IF r = "timeout" /\ probes[q].pc = "fetch"
                         THEN OnResponse(probes[q], r)
                         ELSE probes[q]]
    /\ UNCHANGED <<retryCount, newBlocks, pos, batches, splitPc, uploadVars>>

\* The pending fetch of probe p settles with r and the probe runs on to its
\* next await or to its end.
Respond(p, r) ==
    /\ probes[p].pc = "fetch"
    /\ probes' = [probes EXCEPT ![p] = OnResponse(@, r)]
    /\ UNCHANGED <<retryCount, newBlocks, pos, batches, splitPc, uploadVars>>

InitProbe ==
    /\ retryCount \in 0..MaxRetry
    /\ probes = [p \in Probes |-> NewProbe]
    /\ newBlocks = <<>>
    /\ pos = 0
    /\ batches = <<>>
    /\ splitPc = "idle"
    /\ UploadIdle

NextProbe ==
    \/ \E p \in Probes : Start(p)
    \/ \E p \in Probes, r \in Responses : Respond(p, r)

SpecProbe == InitProbe /\ [][NextProbe]_vars

-----------------------------------------------------------------------------
(* splitOnBatches *)

MAX_BATCH_ACTIONS == 7
MAX_BATCH_BYTES == 256 * 1024

\* A payload (a Buffer) is the pair of its identity and its length; splitting
\* reads nothing else of it.
\* The lengths tried: a small buffer, half the byte limit, and a buffer that
\* exceeds the limit by itself.
Lengths == {1, MAX_BATCH_BYTES \div 2, MAX_BATCH_BYTES + 1}

\* The list of n blocks whose lengths are f[1..n]; block k carries buffer k.
BlockList(n, f) == [k \in 1..n |-> [data |-> [id |-> k, length |-> f[k]]]]

\* batch.reduce((a, b) => a + b.length, 0)
RECURSIVE SumLength(_)
SumLength(batch) ==
    IF batch = <<>> THEN 0
    ELSE batch[1].length + SumLength(Tail(batch))

\* Variants of NeedsNewBatch: > for >= in the item test, > for >= in the
\* byte test, and no byte test.
NeedsNewBatch_CountOffByOne(currentBatch) ==
    \/ Len(currentBatch) > MAX_BATCH_ACTIONS
    \/ SumLength(currentBatch) >= MAX_BATCH_BYTES

NeedsNewBatch_BytesStrict(currentBatch) ==
    \/ Len(currentBatch) >= MAX_BATCH_ACTIONS
    \/ SumLength(currentBatch) > MAX_BATCH_BYTES

NeedsNewBatch_IgnoresBytes(currentBatch) ==
    Len(currentBatch) >= MAX_BATCH_ACTIONS

\* The rollover test of the loop body, on the current batch.
NeedsNewBatch(currentBatch) ==
    \/ Len(currentBatch) >= MAX_BATCH_ACTIONS
    \/ SumLength(currentBatch) >= MAX_BATCH_BYTES

\* Variant of PushData that pushes nothing into a batch just started.
PushData_LostOnRollover(bs, data) ==
    IF bs[Len(bs)] = <<>> /\ Len(bs) > 1 THEN bs
    ELSE [bs EXCEPT ![Len(bs)] = Append(@, data)]

\* currentBatch.push(data); currentBatch is always the last array of batches.
PushData(bs, data) == [bs EXCEPT ![Len(bs)] = Append(@, data)]

\* Variant of SplitIteration that tests for the rollover after the push, and
\* so opens a batch that may stay empty.
SplitIteration_RolloverAfterPush(bs, data) ==
    IF NeedsNewBatch(PushData(bs, data)[Len(bs)])
    THEN Append(PushData(bs, data), <<>>)
    ELSE PushData(bs, data)

\* One iteration of the for-of loop, for the payload `data`.
SplitIteration(bs, data) ==
    IF NeedsNewBatch(bs[Len(bs)])
    THEN PushData(Append(bs, <<>>), data)
    ELSE PushData(bs, data)

\* The whole function, for callers that run it synchronously.
RECURSIVE SplitFrom(_, _, _)
SplitFrom(bs, blocks, k) ==
    IF k > Len(blocks) THEN bs
    ELSE SplitFrom(SplitIteration(bs, blocks[k].data), blocks, k + 1)

splitOnBatches(blocks) == SplitFrom(<< <<>> >>, blocks, 1)

InitSplit ==
    /\ newBlocks = <<>>
    /\ pos = 0
    /\ batches = <<>>
    /\ splitPc = "idle"
    /\ retryCount = 0
    /\ probes = <<>>
    /\ UploadIdle

\* The call splitOnBatches(blocks), up to `const batches = [currentBatch]`.
SplitCall ==
    /\ splitPc = "idle"
    /\ \E n \in 0..MaxSplitLen : \E f \in [1..n -> Lengths] :
          newBlocks' = BlockList(n, f)
    /\ pos' = 0
    /\ batches' = << <<>> >>
    /\ splitPc' = "loop"
    /\ UNCHANGED <<retryCount, probes, uploadVars>>

SplitStep ==
    /\ splitPc = "loop"
    /\ pos < Len(newBlocks)
    /\ batches' = SplitIteration(batches, newBlocks[pos + 1].data)
    /\ pos' = pos + 1
    /\ UNCHANGED <<newBlocks, splitPc, retryCount, probes, uploadVars>>

SplitReturn ==
    /\ splitPc = "loop"
    /\ pos = Len(newBlocks)
    /\ splitPc' = "returned"
    /\ UNCHANGED <<newBlocks, pos, batches, retryCount, probes, uploadVars>>

NextSplit == SplitCall \/ SplitStep \/ SplitReturn

SpecSplit == InitSplit /\ [][NextSplit]_vars

-----------------------------------------------------------------------------
(* isExpectedNearError and the sender that executeUpload builds *)

\* An error as the classification reads it: error.type, the entry of
\* error.kind.kind.FunctionCallError, and error.message as the list of the
\* phrases it is made of (<<>> for a missing or empty message).
ErrorTypes == {"ActionError", "TypedError"}

FunctionCallErrors ==
    {"none", "MethodNotFound", "MethodEmptyName", "CodeDoesNotExist",
     "ExecutionError"}

ErrorMessages ==
    {<<>>,
     <<"ServerTransactionError">>,
     <<"Cannot find contract code for account", "test.near">>,
     <<"wasm execution failed:", "Contract method is not found">>}

ErrorShapes ==
    [type : ErrorTypes, fce : FunctionCallErrors, message : ErrorMessages]

\* error.kind?.kind?.FunctionCallError?.MethodResolveError
MethodResolveError(error) ==
    IF error.fce \in {"MethodNotFound", "MethodEmptyName"} THEN error.fce
    ELSE "undefined"

\* error.kind?.kind?.FunctionCallError?.CompilationError?.CodeDoesNotExist,
\* as a condition.
CodeDoesNotExist(error) == error.fce = "CodeDoesNotExist"

\* message.includes(phrase)
Includes(message, phrase) == \E k \in 1..Len(message) : message[k] = phrase

\* Variant of isExpectedNearError without the tests of error.type.
isExpectedNearError_NoTypeTest(error) ==
    \/ MethodResolveError(error) = "MethodNotFound"
    \/ CodeDoesNotExist(error)
    \/ /\ error.message # <<>>
       /\ \/ Includes(error.message, "Cannot find contract code for account")
          \/ Includes(error.message, "Contract method is not found")

isExpectedNearError(error) ==
    \/ /\ error.type = "ActionError"
       /\ MethodResolveError(error) = "MethodNotFound"
    \/ /\ error.type = "ActionError"
       /\ CodeDoesNotExist(error)
    \/ /\ error.message # <<>>
       /\ \/ Includes(error.message, "Cannot find contract code for account")
          \/ Includes(error.message, "Contract method is not found")

\* What account.signAndSendTransaction can do: resolve, or reject with an
\* error.
AccountOutcomes == {NoError} \cup ErrorShapes

\* The sender of executeUpload, when the account's call settles with o: it
\* resolves, resolves after swallowing an expected error, or rejects.
WrapperOutcome(o) ==
    IF o = NoError THEN "ok"
    ELSE IF isExpectedNearError(o) THEN "swallowed"
    ELSE "rejected"

\* A sender written by the caller of uploadFiles / uploadBlocks, as in the
\* README: it resolves or rejects as the account's call does.
CallerOutcome(o) == IF o = NoError THEN "ok" ELSE "rejected"

\* The sender of the command line: it swallows MethodNotFound only.
CliOutcome(o) ==
    IF o = NoError THEN "ok"
    ELSE IF o.type = "ActionError" /\ MethodResolveError(o) = "MethodNotFound"
         THEN "swallowed"
    ELSE "rejected"

SenderKinds == {"caller", "executeUpload", "cli"}

SenderOutcome(kind, o) ==
    IF kind = "executeUpload" THEN WrapperOutcome(o)
    ELSE IF kind = "cli" THEN CliOutcome(o)
    ELSE CallerOutcome(o)

-----------------------------------------------------------------------------
(* The tree builder of uploadFiles *)

\* name.split('/'), for a name written as its segments and its separators:
\* 'dir/b.txt' is <<"dir", "/", "b.txt">>.
RECURSIVE Split(_)
Split(name) ==
    IF name = <<>> THEN <<"">>
    ELSE IF Head(name) = "/" THEN <<"">> \o Split(Tail(name))
    ELSE IF Len(name) = 1 THEN <<name[1]>>
    ELSE <<name[1]>> \o Split(SubSeq(name, 3, Len(name)))

CODEC_RAW == "raw"
CODEC_DAG_PB == "dag-pb"

\* sha256 of a buffer: a function of its bytes, taken to be free of
\* collisions.
computeHash(data) == <<"sha256", data.id>>

packCID(hash, codec) == [version |-> 1, codec |-> codec, hash |-> hash]

\* The display string of a CID: the base32 text of its bytes.
cidToString(cid) == [base32 |-> <<cid.version, cid.codec, cid.hash>>]

\* A link as the node encoder reads it: name, cid and size of the entry, the
\* size being absent for a directory entry.
PBLink(e) ==
    IF "size" \in DOMAIN e
    THEN [name |-> e.name, cid |-> e.cid, size |-> e.size]
    ELSE [name |-> e.name, cid |-> e.cid]

\* writePBNode({ links, data }): the encoder is a function of fast-ipfs; its
\* result is written as the sequence of links it was given and the data. Its
\* length is taken as the two data bytes and a byte per link, the true length
\* being the encoder's and far below MAX_BATCH_BYTES for the trees built here.
writePBNode(links, data) ==
    [id |-> <<"pb", [k \in 1..Len(links) |-> PBLink(links[k])], data>>,
     length |-> Len(data) + Len(links)]

\* What the tree builder throws when it reads `links` of a file entry.
TreeError ==
    [type |-> "TypeError", fce |-> "none",
     message |-> <<"Cannot read properties of undefined">>]

\* What a call of an undefined log throws.
LogError ==
    [type |-> "TypeError", fce |-> "none", message |-> <<"log is not a function">>]

Thrown == [thrown |-> TRUE]

IsThrown(x) == "thrown" \in DOMAIN x

\* The index of the first entry with a name, or 0: dir.links.find.
Find(links, name) ==
    LET ks == {k \in 1..Len(links) : links[k].name = name} IN
    IF ks = {} THEN 0 ELSE CHOOSE k \in ks : \A j \in ks : k <= j

\* Variant of InsertFile that always makes a new directory entry.
RECURSIVE InsertFile_NoFind(_, _, _)
InsertFile_NoFind(dir, path, fileEntry) ==
    IF "links" \notin DOMAIN dir THEN Thrown
    ELSE IF Len(path) = 1
    THEN [dir EXCEPT !.links = Append(@, fileEntry)]
    ELSE LET sub == InsertFile_NoFind([name |-> path[1], links |-> <<>>],
                                      Tail(path), fileEntry)
         IN [dir EXCEPT !.links = Append(@, sub)]

\* The body of the loop over the files, below dir: walk or make the
\* directories of the path, then push the file entry. It throws when the
\* entry found for a directory name is a file entry, which has no links.
RECURSIVE InsertFile(_, _, _)
InsertFile(dir, path, fileEntry) ==
    IF "links" \notin DOMAIN dir THEN Thrown
    ELSE IF Len(path) = 1
    THEN [dir EXCEPT !.links = Append(@, fileEntry)]
    ELSE LET k == Find(dir.links, path[1]) IN
         IF k = 0
         THEN LET sub == InsertFile([name |-> path[1], links |-> <<>>],
                                    Tail(path), fileEntry)
              IN [dir EXCEPT !.links = Append(@, sub)]
         ELSE LET sub == InsertFile(dir.links[k], Tail(path), fileEntry) IN
              IF IsThrown(sub) THEN Thrown
              ELSE [dir EXCEPT !.links[k] = sub]

\* Variant of FileCid with the codec of a wrapped file.
FileCid_DagPb(file) == packCID(computeHash(file.content), CODEC_DAG_PB)

FileCid(file) == packCID(computeHash(file.content), CODEC_RAW)

FileEntry(file) ==
    [name |-> Last(Split(file.name)), cid |-> FileCid(file),
     size |-> file.content.length]

FileBlock(file) == [data |-> file.content, cid |-> FileCid(file)]

\* One iteration of the loop over the files.
AddFile(dir, file) == InsertFile(dir, Split(file.name), FileEntry(file))

\* addBlocksForDir(dir): [dir |-> the directory with the CIDs filled in,
\* blocks |-> the blocks pushed, cid |-> the CID returned].
RECURSIVE AddBlocksForLinks(_, _)
RECURSIVE addBlocksForDir(_)

\* Variant of AddBlocksForLinks that keeps the CID of a subdirectory and
\* drops the blocks pushed below it.
AddBlocksForLinks_DropsSubBlocks(links, k) ==
    IF k > Len(links) THEN [links |-> links, blocks |-> <<>>]
    ELSE IF "cid" \in DOMAIN links[k] THEN AddBlocksForLinks(links, k + 1)
    ELSE LET sub == addBlocksForDir(links[k])
             rest == AddBlocksForLinks([links EXCEPT ![k] = sub.dir], k + 1)
         IN [links |-> rest.links, blocks |-> rest.blocks]

AddBlocksForLinks(links, k) ==
    IF k > Len(links) THEN [links |-> links, blocks |-> <<>>]
    ELSE IF "cid" \in DOMAIN links[k] THEN AddBlocksForLinks(links, k + 1)
    ELSE LET sub == addBlocksForDir(links[k])
             rest == AddBlocksForLinks([links EXCEPT ![k] = sub.dir], k + 1)
         IN [links |-> rest.links, blocks |-> sub.blocks \o rest.blocks]

\* Variant of addBlocksForDir that pushes no block for a directory without
\* links.
addBlocksForDir_SkipsEmpty(dir) ==
    LET r == AddBlocksForLinks(dir.links, 1)
        pbNode == writePBNode(r.links, <<8, 1>>)
        cid == packCID(computeHash(pbNode), CODEC_DAG_PB)
    IN [dir |-> [name |-> dir.name, links |-> r.links, cid |-> cid],
        blocks |-> IF dir.links = <<>> THEN r.blocks
                   ELSE Append(r.blocks, [data |-> pbNode, cid |-> cid]),
        cid |-> cid]

\* Variant of addBlocksForDir that pushes the block of a directory before the
\* blocks of the directories below it.
addBlocksForDir_PreOrder(dir) ==
    LET r == AddBlocksForLinks(dir.links, 1)
        pbNode == writePBNode(r.links, <<8, 1>>)
        cid == packCID(computeHash(pbNode), CODEC_DAG_PB)
    IN [dir |-> [name |-> dir.name, links |-> r.links, cid |-> cid],
        blocks |-> <<[data |-> pbNode, cid |-> cid]>> \o r.blocks,
        cid |-> cid]

addBlocksForDir(dir) ==
    LET r == AddBlocksForLinks(dir.links, 1)
        pbNode == writePBNode(r.links, <<8, 1>>)
        cid == packCID(computeHash(pbNode), CODEC_DAG_PB)
    IN [dir |-> [name |-> dir.name, links |-> r.links, cid |-> cid],
        blocks |-> Append(r.blocks, [data |-> pbNode, cid |-> cid]),
        cid |-> cid]

\* The loop over the files from file k on, as a whole.
RECURSIVE FileLoop(_, _, _, _)
FileLoop(dir, q, fs, k) ==
    IF k > Len(fs) THEN [dir |-> dir, queued |-> q]
    ELSE LET d == AddFile(dir, fs[k]) IN
         IF IsThrown(d) THEN Thrown
         ELSE FileLoop(d, Append(q, FileBlock(fs[k])), fs, k + 1)

-----------------------------------------------------------------------------
(* uploadBlocks *)

MaxUploadBlocks == 2
UploadRetry == 1

\* The lengths tried in an upload: a small buffer and one that exceeds the
\* byte limit by itself.
UploadLengths == {1, MAX_BATCH_BYTES + 1}

\* The list of n blocks to upload; blocks 1 and 2 have the same CID, as the
\* blocks of the uploadBlocks test have.
UploadBlockList(n, f) ==
    [k \in 1..n |->
        [data |-> [id |-> k, length |-> f[k]], cid |-> (k + 1) \div 2]]

\* The error of a probe, as uploadBlocks rejects with it.
ProbeError ==
    [type |-> "Error", fce |-> "none", message |-> <<"Unexpected status code">>]

\* The array the Promise.all of the probing phase resolves to.
BlocksAndStatus(bl, np) ==
    [k \in 1..Len(bl) |->
        [data |-> bl[k].data, cid |-> bl[k].cid,
         uploaded |-> np[k].result = "true"]]

\* Variant of FilteredBlocks that keeps the blocks reported as uploaded.
FilteredBlocks_Inverted(blocksAndStatus) ==
    SelectSeq(blocksAndStatus, LAMBDA b : b.uploaded)

\* blocksAndStatus.filter(({ uploaded }) => !uploaded)
FilteredBlocks(blocksAndStatus) ==
    SelectSeq(blocksAndStatus, LAMBDA b : ~b.uploaded)

\* Variant of AllProbesReturned for a race: one probe is enough.
AllProbesReturned_Any(np) == \E p \in DOMAIN np : np[p].pc = "returned"

\* Promise.all resolves: every probe has returned.
AllProbesReturned(np) == \A p \in DOMAIN np : np[p].pc = "returned"

\* Promise.all rejects: a probe has thrown.
SomeProbeThrew(np) == \E p \in DOMAIN np : np[p].pc = "thrown"

\* Variant of SenderArgument as batch.map(({ data }) => data), on a batch
\* that already holds the payloads: every item is undefined, written here as
\* a payload that is no block's.
SenderArgument_MapsData(batch) ==
    [j \in 1..Len(batch) |-> [id |-> 0, length |-> 0]]

\* The argument of signAndSendTransaction(batch).
SenderArgument(batch) == batch

NewCall(bs, k) ==
    [batch |-> k, args |-> SenderArgument(bs[k]), outcome |-> "pending"]

\* Variant of NextCalls that starts the calls of all batches from k on.
NextCalls_AllAtOnce(cs, bs, k) ==
    cs \o [j \in 1..(Len(bs) - k + 1) |-> NewCall(bs, k + j - 1)]

\* The calls made so far, with the call for batch k started.
NextCalls(cs, bs, k) == Append(cs, NewCall(bs, k))

\* batches.reduce((a, b) => a + b.length, 0)
RECURSIVE CountItems(_)
CountItems(bs) ==
    IF bs = <<>> THEN 0 ELSE Len(bs[1]) + CountItems(Tail(bs))

\* Variant of Continues with a catch that swallows every rejection.
Continues_Always(out) == TRUE

\* `await signAndSendTransaction(batch)`: the loop goes on when the call
\* resolved and the rejection leaves uploadBlocks otherwise.
Continues(out) == out \in {"ok", "swallowed"}

\* Variant of AddedBlocks that counts batches.
AddedBlocks_One(batch) == 1

\* currentBlocks += batch.length
AddedBlocks(batch) == Len(batch)

\* The options a caller may leave out.
Omittable == {"retryCount", "log"}

\* const { retryCount } = options in isAlreadyUploaded: the option as the
\* caller gave it. An omitted option is undefined, `i < undefined` is false
\* for every i and the loop body never runs: the behaviour of the bound 0.
LoopBound(om, given) == IF "retryCount" \in om THEN 0 ELSE given

\* The calls of log in isAlreadyUploaded: with log omitted the call throws a
\* TypeError, which is no AbortError and leaves the probe.
LogCall(old, new) ==
    IF "log" \in omitted /\ Len(new.logs) > Len(old.logs)
    THEN [old EXCEPT !.pc = "thrown", !.result = "error",
                     !.history = new.history]
    ELSE new

\* Variant of ResolvedValue that takes the CID of the last payload packed
\* for submission.
ResolvedValue_OfLastPayload(e, rc) ==
    IF e = "uploadFiles"
    THEN [kind |-> "cid",
          value |-> cidToString(
              IF batches = <<>> \/ Last(batches) = <<>> THEN NoCid
              ELSE packCID(computeHash(Last(Last(batches))), CODEC_DAG_PB))]
    ELSE [kind |-> "undefined", value |-> NoError]

\* What the promise of entry e resolves with.
ResolvedValue(e, rc) ==
    IF e = "uploadFiles"
    THEN [kind |-> "cid", value |-> cidToString(rc)]
    ELSE [kind |-> "undefined", value |-> NoError]

\* Variant of EntrySettles without the await of uploadBlocks.
EntrySettles_NoAwait(e, rc) ==
    /\ entryPc' = CASE upPc' \in {"sending", "done"} -> "resolved"
                    [] upPc' = "rejected" -> "rejected"
                    [] OTHER -> "running"
    /\ entryResult' = CASE upPc' \in {"sending", "done"} -> ResolvedValue(e, rc)
                        [] upPc' = "rejected" ->
                              [kind |-> "error", value |-> upError']
                        [] OTHER -> NoResult

\* The entry awaits uploadBlocks and settles as it does: `await
\* uploadBlocks(...)` followed by the return.
EntrySettles(e, rc) ==
    /\ entryPc' = CASE upPc' = "done" -> "resolved"
                    [] upPc' = "rejected" -> "rejected"
                    [] OTHER -> "running"
    /\ entryResult' = CASE upPc' = "done" -> ResolvedValue(e, rc)
                        [] upPc' = "rejected" ->
                              [kind |-> "error", value |-> upError']
                        [] OTHER -> NoResult

PendingCalls == {c \in 1..Len(calls) : calls[c].outcome = "pending"}

\* Variant of AfterProbes that waits for every probe to settle and takes a
\* probe that threw as a block that is not uploaded.
AfterProbes_AllSettled(bl, np) ==
    IF \A p \in DOMAIN np : np[p].pc \in {"returned", "thrown"}
    THEN LET filteredBlocks == FilteredBlocks(BlocksAndStatus(bl, np))
             bs == splitOnBatches(filteredBlocks)
         IN /\ newBlocks' = filteredBlocks
            /\ pos' = Len(filteredBlocks)
            /\ batches' = bs
            /\ splitPc' = "returned"
            /\ totalBlocks' = CountItems(bs)
            /\ currentBlocks' = 0
            /\ IF bs = <<>>
               THEN calls' = calls /\ upPc' = "done"
               ELSE calls' = NextCalls(calls, bs, 1) /\ upPc' = "sending"
            /\ upError' = upError
    ELSE /\ upPc' = "probing"
         /\ UNCHANGED <<splitVars, calls, currentBlocks, totalBlocks, upError>>

\* What runs once the probing phase has settled, for the blocks bl and the
\* probes np: nothing while a probe is pending, the rejection of uploadBlocks
\* when a probe threw, and else the filter, the packer, the totals and the
\* first call of the sender.
AfterProbes(bl, np) ==
    IF SomeProbeThrew(np)
    THEN /\ upPc' = "rejected"
         /\ upError' = ProbeError
         /\ UNCHANGED <<splitVars, calls, currentBlocks, totalBlocks>>
    ELSE IF AllProbesReturned(np)
    THEN LET filteredBlocks == FilteredBlocks(BlocksAndStatus(bl, np))
             bs == splitOnBatches(filteredBlocks)
         IN /\ newBlocks' = filteredBlocks
            /\ pos' = Len(filteredBlocks)
            /\ batches' = bs
            /\ splitPc' = "returned"
            /\ totalBlocks' = CountItems(bs)
            /\ currentBlocks' = 0
            /\ IF bs = <<>>
               THEN calls' = calls /\ upPc' = "done"
               ELSE calls' = NextCalls(calls, bs, 1) /\ upPc' = "sending"
            /\ upError' = upError
    ELSE /\ upPc' = "probing"
         /\ UNCHANGED <<splitVars, calls, currentBlocks, totalBlocks, upError>>

\* The call uploadBlocks(bl, options), up to its first await.
CallUploadBlocks(bl) ==
    LET np == [p \in 1..Len(bl) |-> NewProbe] IN
    /\ inBlocks' = bl
    /\ probes' = np
    /\ AfterProbes(bl, np)

\* A caller calls uploadBlocks(blocks, options).
UploadCall ==
    /\ upPc = "idle"
    /\ entryPc = "idle"
    /\ \E n \in 0..MaxUploadBlocks : \E f \in [1..n -> UploadLengths] :
        CallUploadBlocks(UploadBlockList(n, f))
    /\ entry' = "uploadBlocks"
    /\ EntrySettles("uploadBlocks", NoCid)
    /\ UNCHANGED <<retryCount, senderKind, reports, lastError, omitted,
                   treeVars, car, carBlocks, carStatus>>

\* Variant of CarFilter that hands every block of the archive on.
CarFilter_KeepsAll(blocksAndStatus) == blocksAndStatus

\* return blocksAndStatus.filter(({ uploaded }) => !uploaded)
CarFilter(blocksAndStatus) == FilteredBlocks(blocksAndStatus)

\* What runs once the probing phase of blocksToUpload has settled, for the
\* probes np: uploadCAR rejects when a probe threw, and else calls
\* uploadBlocks with the blocks that are not uploaded.
AfterCarProbes(np) ==
    IF SomeProbeThrew(np)
    THEN /\ probes' = np
         /\ upPc' = "rejected"
         /\ upError' = ProbeError
         /\ UNCHANGED <<inBlocks, splitVars, calls, currentBlocks, totalBlocks,
                        carStatus>>
    ELSE IF AllProbesReturned(np)
    THEN LET blocksAndStatus == BlocksAndStatus(carBlocks, np) IN
         /\ carStatus' = blocksAndStatus
         /\ CallUploadBlocks(CarFilter(blocksAndStatus))
    ELSE /\ probes' = np
         /\ UNCHANGED <<inBlocks, upPc, upError, splitVars, calls,
                        currentBlocks, totalBlocks, carStatus>>

\* A step of probe p, followed by what the settled Promise.all triggers; the
\* probes of an upload that was rejected run on, with no effect on it.
ProbeStep(p, pr) ==
    LET np == [probes EXCEPT ![p] = LogCall(probes[p], pr)] IN
    /\ IF upPc = "carProbing"
       THEN AfterCarProbes(np)
       ELSE /\ probes' = np
            /\ inBlocks' = inBlocks
            /\ carStatus' = carStatus
            /\ IF upPc = "probing"
               THEN AfterProbes(inBlocks, np)
               ELSE UNCHANGED <<splitVars, upPc, calls, currentBlocks,
                                totalBlocks, upError>>
    /\ EntrySettles(entry, rootCid)
    /\ UNCHANGED <<retryCount, senderKind, reports, lastError, omitted, entry,
                   treeVars, car, carBlocks>>

UploadStart(p) ==
    /\ probes[p].pc = "sleep"
    /\ \A q \in DOMAIN probes : q < p => probes[q].pc # "sleep"
    /\ ProbeStep(p, LoopHead(probes[p]))

UploadRespond(p, r) ==
    /\ probes[p].pc = "fetch"
    /\ ProbeStep(p, OnResponse(probes[p], r))

\* The pending call of the sender settles, the account's call having ended
\* with o, and the loop of uploadBlocks runs on to its next await or its end.
SenderSettle(o) ==
    /\ upPc = "sending"
    /\ \E c \in PendingCalls :
        LET out == SenderOutcome(senderKind, o)
            settled == [calls EXCEPT ![c].outcome = out]
            k == calls[c].batch
        IN /\ lastError' = o
           /\ IF Continues(out)
              THEN /\ currentBlocks' = currentBlocks + AddedBlocks(batches[k])
                   /\ reports' = Append(reports,
                          [currentBlocks |-> currentBlocks',
                           totalBlocks |-> totalBlocks])
                   /\ IF k < Len(batches)
                      THEN calls' = NextCalls(settled, batches, k + 1)
                           /\ upPc' = "sending"
                      ELSE calls' = settled /\ upPc' = "done"
                   /\ upError' = upError
              ELSE /\ calls' = settled
                   /\ upPc' = "rejected"
                   /\ upError' = o
                   /\ UNCHANGED <<currentBlocks, reports>>
    /\ EntrySettles(entry, rootCid)
    /\ UNCHANGED <<retryCount, probes, splitVars, inBlocks, senderKind,
                   totalBlocks, omitted, entry, treeVars, car,
                   carBlocks, carStatus>>

InitUpload ==
    /\ retryCount \in 0..UploadRetry
    /\ probes = <<>>
    /\ newBlocks = <<>>
    /\ pos = 0
    /\ batches = <<>>
    /\ splitPc = "idle"
    /\ inBlocks = <<>>
    /\ upPc = "idle"
    /\ senderKind \in SenderKinds
    /\ calls = <<>>
    /\ currentBlocks = 0
    /\ totalBlocks = 0
    /\ reports = <<>>
    /\ lastError = NoError
    /\ upError = NoError
    /\ omitted \in SUBSET {"log"}
    /\ EntryIdle

NextUpload ==
    \/ UploadCall
    \/ \E p \in DOMAIN probes : UploadStart(p)
    \/ \E p \in DOMAIN probes, r \in Responses : UploadRespond(p, r)
    \/ \E o \in AccountOutcomes : SenderSettle(o)

SpecUpload == InitUpload /\ [][NextUpload]_vars

-----------------------------------------------------------------------------
(* The tree builder, stepped through its loops *)

MaxTreeFiles == 3

TreeNames ==
    {<<"a.txt">>, <<"dir", "/", "b.txt">>, <<"dir", "/", "c.txt">>,
     <<"dir", "/", "sub", "/", "d.txt">>, <<"dir">>}

TreeContents == {[id |-> "x", length |-> 1], [id |-> "y", length |-> 2]}

TreeFiles == [name : TreeNames, content : TreeContents]

InitTree ==
    /\ retryCount = 0
    /\ probes = <<>>
    /\ newBlocks = <<>>
    /\ pos = 0
    /\ batches = <<>>
    /\ splitPc = "idle"
    /\ UploadIdle

\* The call of uploadFiles, up to the loop over the files.
TreeCall ==
    /\ treePc = "idle"
    /\ \E n \in 0..MaxTreeFiles : \E f \in [1..n -> TreeFiles] : files' = f
    /\ filePos' = 0
    /\ rootDir' = EmptyRoot
    /\ queued' = <<>>
    /\ treePc' = "files"
    /\ UNCHANGED <<retryCount, probes, splitVars, inBlocks, upPc, senderKind,
                   calls, currentBlocks, totalBlocks, reports, lastError,
                   upError, omitted, entry, entryPc, entryResult, rootCid,
                   car, carBlocks, carStatus>>

\* One iteration of the loop over the files.
TreeFile ==
    /\ treePc = "files"
    /\ filePos < Len(files)
    /\ LET file == files[filePos + 1]
           d == AddFile(rootDir, file)
       IN IF IsThrown(d)
          THEN /\ treePc' = "thrown"
               /\ UNCHANGED <<rootDir, queued, filePos>>
          ELSE /\ rootDir' = d
               /\ queued' = Append(queued, FileBlock(file))
               /\ filePos' = filePos + 1
               /\ treePc' = treePc
    /\ UNCHANGED <<retryCount, probes, splitVars, inBlocks, upPc, senderKind,
                   calls, currentBlocks, totalBlocks, reports, lastError,
                   upError, omitted, entry, entryPc, entryResult, files,
                   rootCid, car, carBlocks, carStatus>>

\* const rootCid = addBlocksForDir(rootDir), after the loop.
TreeDirs ==
    /\ treePc = "files"
    /\ filePos = Len(files)
    /\ LET r == addBlocksForDir(rootDir) IN
        /\ rootDir' = r.dir
        /\ rootCid' = r.cid
        /\ queued' = queued \o r.blocks
    /\ treePc' = "built"
    /\ UNCHANGED <<retryCount, probes, splitVars, inBlocks, upPc, senderKind,
                   calls, currentBlocks, totalBlocks, reports, lastError,
                   upError, omitted, entry, entryPc, entryResult, files,
                   filePos, car, carBlocks, carStatus>>

NextTree == TreeCall \/ TreeFile \/ TreeDirs

SpecTree == InitTree /\ [][NextTree]_vars

-----------------------------------------------------------------------------
(* uploadFiles *)

MaxUploadFiles == 2

\* The files of the uploadFiles test: one at the root, one in a folder.
UploadFileSet ==
    {[name |-> <<"a.txt">>, content |-> [id |-> "x", length |-> 1]],
     [name |-> <<"dir", "/", "b.txt">>, content |-> [id |-> "y", length |-> 2]]}

\* The retryCount a caller of uploadFiles gives when it gives one: that of
\* the tests.
TEST_RETRY_COUNT == 1

\* The answers of the gateway tried in an upload of files.
FileResponses == {"s200", "s404", "s500"}

\* The outcomes of the account's call tried in an upload of files or of an
\* archive: success, an expected error and another error, as in the tests.
EntryOutcomes ==
    {NoError,
     [type |-> "ActionError", fce |-> "CodeDoesNotExist", message |-> <<>>],
     [type |-> "ActionError", fce |-> "none",
      message |-> <<"ServerTransactionError">>]}

\* The entry rejects before uploadBlocks is called.
EntryThrows(e) ==
    /\ entryPc' = "rejected"
    /\ entryResult' = [kind |-> "error", value |-> e]
    /\ UNCHANGED <<probes, splitVars, inBlocks, upPc, calls, currentBlocks,
                   totalBlocks, upError>>

\* uploadFiles(fs, options) up to its await: the loop over the files, the
\* first call of log, addBlocksForDir and the call of uploadBlocks.
UploadFilesSync(fs) ==
    LET t == FileLoop(EmptyRoot, <<>>, fs, 1) IN
    IF IsThrown(t)
    THEN /\ treePc' = "thrown"
         /\ filePos' = 0
         /\ UNCHANGED <<rootDir, rootCid, queued>>
         /\ EntryThrows(TreeError)
    ELSE IF "log" \in omitted
    THEN /\ treePc' = "files"
         /\ filePos' = Len(fs)
         /\ rootDir' = t.dir
         /\ queued' = t.queued
         /\ rootCid' = rootCid
         /\ EntryThrows(LogError)
    ELSE LET r == addBlocksForDir(t.dir) IN
         /\ filePos' = Len(fs)
         /\ rootDir' = r.dir
         /\ rootCid' = r.cid
         /\ queued' = t.queued \o r.blocks
         /\ treePc' = "built"
         /\ CallUploadBlocks(t.queued \o r.blocks)
         /\ EntrySettles("uploadFiles", r.cid)

\* A caller calls uploadFiles(files, options).
FilesCall ==
    /\ entryPc = "idle"
    /\ \E n \in 0..MaxUploadFiles : \E f \in [1..n -> UploadFileSet] :
        /\ files' = f
        /\ UploadFilesSync(f)
    /\ entry' = "uploadFiles"
    /\ UNCHANGED <<retryCount, senderKind, reports, lastError, omitted, car,
                   carBlocks, carStatus>>

InitFiles ==
    /\ omitted \in SUBSET Omittable
    /\ retryCount = LoopBound(omitted, TEST_RETRY_COUNT)
    /\ senderKind \in SenderKinds
    /\ probes = <<>>
    /\ newBlocks = <<>>
    /\ pos = 0
    /\ batches = <<>>
    /\ splitPc = "idle"
    /\ inBlocks = <<>>
    /\ upPc = "idle"
    /\ calls = <<>>
    /\ currentBlocks = 0
    /\ totalBlocks = 0
    /\ reports = <<>>
    /\ lastError = NoError
    /\ upError = NoError
    /\ EntryIdle

NextFiles ==
    \/ FilesCall
    \/ \E p \in DOMAIN probes : UploadStart(p)
    \/ \E p \in DOMAIN probes, r \in FileResponses : UploadRespond(p, r)
    \/ \E o \in EntryOutcomes : SenderSettle(o)

SpecFiles == InitFiles /\ [][NextFiles]_vars

-----------------------------------------------------------------------------
(* uploadCAR *)

MaxCarRecords == 3

\* An archive of n records: a header and n - 1 blocks; `decodes` tells
\* whether readCAR and readBlock can read it or throw.
CarBuffer(n, ok) ==
    [decodes |-> ok,
     records |-> [k \in 1..n |->
         IF k = 1 THEN [data |-> [header |-> "roots"]]
         ELSE [data |-> [cid |-> k, payload |-> [id |-> k, length |-> 1]]]]]

DecodeError ==
    [type |-> "Error", fce |-> "none", message |-> <<"Unexpected end of data">>]

\* readBlock(b.data): the CID and the payload of a record.
readBlock(d) ==
    IF "cid" \in DOMAIN d
    THEN [data |-> d.payload, cid |-> d.cid]
    ELSE [data |-> [id |-> "header", length |-> 1], cid |-> 0]

\* Variant of CarBlocks without slice(1).
CarBlocks_NoSlice(records) ==
    [k \in 1..Len(records) |-> readBlock(records[k].data)]

\* readCAR(carBuffer).slice(1).map(b => readBlock(b.data))
CarBlocks(records) ==
    [k \in 1..(Len(records) - 1) |-> readBlock(records[k + 1].data)]

\* Variant of UploadCarSync that starts the probes before it decodes.
UploadCarSync_ProbesFirst(c) ==
    IF "log" \in omitted
    THEN /\ carBlocks' = <<>>
         /\ EntryThrows(LogError)
    ELSE LET bl == CarBlocks(c.records)
             np == [p \in 1..Len(bl) |-> NewProbe]
         IN /\ carBlocks' = bl
            /\ IF ~c.decodes
               THEN /\ probes' = np
                    /\ entryPc' = "rejected"
                    /\ entryResult' = [kind |-> "error", value |-> DecodeError]
                    /\ UNCHANGED <<splitVars, inBlocks, upPc, calls,
                                   currentBlocks, totalBlocks, upError>>
               ELSE IF bl = <<>>
               THEN CallUploadBlocks(<<>>) /\ EntrySettles("uploadCAR", NoCid)
               ELSE /\ probes' = np
                    /\ upPc' = "carProbing"
                    /\ UNCHANGED <<splitVars, inBlocks, calls, currentBlocks,
                                   totalBlocks, upError>>
                    /\ EntrySettles("uploadCAR", NoCid)

\* uploadCAR(c, options) up to its first await: the call of log, then in
\* blocksToUpload the decoding and the start of the probes.
UploadCarSync(c) ==
    IF "log" \in omitted
    THEN /\ carBlocks' = <<>>
         /\ EntryThrows(LogError)
    ELSE IF ~c.decodes
    THEN /\ carBlocks' = <<>>
         /\ EntryThrows(DecodeError)
    ELSE LET bl == CarBlocks(c.records)
             np == [p \in 1..Len(bl) |-> NewProbe]
         IN /\ carBlocks' = bl
            /\ IF bl = <<>>
               THEN CallUploadBlocks(<<>>)
               ELSE /\ probes' = np
                    /\ upPc' = "carProbing"
                    /\ UNCHANGED <<splitVars, inBlocks, calls, currentBlocks,
                                   totalBlocks, upError>>
            /\ EntrySettles("uploadCAR", NoCid)

\* A caller calls uploadCAR(carBuffer, options).
CarCall ==
    /\ entryPc = "idle"
    /\ \E n \in 1..MaxCarRecords, ok \in BOOLEAN :
        /\ car' = CarBuffer(n, ok)
        /\ UploadCarSync(CarBuffer(n, ok))
    /\ entry' = "uploadCAR"
    /\ carStatus' = <<>>
    /\ UNCHANGED <<retryCount, senderKind, reports, lastError, omitted,
                   treeVars>>

InitCar ==
    /\ omitted \in SUBSET Omittable
    /\ \E given \in 0..UploadRetry : retryCount = LoopBound(omitted, given)
    /\ senderKind \in SenderKinds
    /\ probes = <<>>
    /\ newBlocks = <<>>
    /\ pos = 0
    /\ batches = <<>>
    /\ splitPc = "idle"
    /\ inBlocks = <<>>
    /\ upPc = "idle"
    /\ calls = <<>>
    /\ currentBlocks = 0
    /\ totalBlocks = 0
    /\ reports = <<>>
    /\ lastError = NoError
    /\ upError = NoError
    /\ EntryIdle

NextCar ==
    \/ CarCall
    \/ \E p \in DOMAIN probes : UploadStart(p)
    \/ \E p \in DOMAIN probes, r \in Responses : UploadRespond(p, r)
    \/ \E o \in EntryOutcomes : SenderSettle(o)

SpecCar == InitCar /\ [][NextCar]_vars

-----------------------------------------------------------------------------
(* Properties of isAlreadyUploaded and of the probing phase *)

Terminated(pr) == pr.pc \in {"returned", "thrown"}

\* How many of the responses in h are r.
Count(h, r) == Cardinality({k \in 1..Len(h) : h[k] = r})

\* C1 (as stated): once an attempt of a probe has received 404, no further
\* request is issued for that CID and the probe has returned false.
C1_NoRequestAfter404 ==
    \A p \in DOMAIN probes : \A k \in 1..Len(probes[p].history) :
        probes[p].history[k] = "s404" =>
            /\ probes[p].attempts = k
            /\ probes[p].pc = "returned"
            /\ probes[p].result = "false"

\* C2: a probe issues at most retryCount requests; it returns false when it
\* has ended and every attempt timed out or answered 404; with retryCount = 3,
\* timeout, timeout, 404 gives false after exactly 3 attempts; only timeouts
\* and the 200 are logged, a 404 is not.
C2_AtMostRetryCountAttempts ==
    \A p \in DOMAIN probes :
        LET pr == probes[p] IN
        /\ pr.attempts <= retryCount
        /\ Len(pr.history) <= pr.attempts
        /\ (/\ Terminated(pr)
            /\ \A k \in 1..Len(pr.history) : pr.history[k] \in {"timeout", "s404"})
           => pr.pc = "returned" /\ pr.result = "false"
        /\ (retryCount = 3 /\ pr.history = <<"timeout", "timeout", "s404">>)
           => pr.pc = "returned" /\ pr.result = "false" /\ pr.attempts = 3
        /\ Len(pr.logs) = Count(pr.history, "timeout") + Count(pr.history, "s200")

C2_Witness ==
    /\ retryCount = 3
    /\ \E p \in DOMAIN probes :
        /\ probes[p].history = <<"timeout", "timeout", "s404">>
        /\ probes[p].result = "false"
        /\ probes[p].attempts = 3
        /\ probes[p].logs = <<"timeout", "timeout">>

\* C3: a 200 is the last response a probe receives: the probe logs that the
\* block exists and returns true with no further request; a first response
\* of 200 gives true after exactly 1 attempt.
C3_ReturnsTrueOn200 ==
    \A p \in DOMAIN probes : \A k \in 1..Len(probes[p].history) :
        LET pr == probes[p] IN
        pr.history[k] = "s200" =>
            /\ k = Len(pr.history)
            /\ pr.attempts = k
            /\ pr.pc = "returned"
            /\ pr.result = "true"
            /\ pr.logs # <<>>
            /\ pr.logs[Len(pr.logs)] = "exists"
            /\ Count(pr.logs, "exists") = 1

C3_Witness ==
    \E p \in DOMAIN probes :
        /\ probes[p].history = <<"s200">>
        /\ probes[p].result = "true"
        /\ probes[p].attempts = 1
        /\ retryCount > 1

\* C4: a status other than 200 and 404 ends the probe with an error raised
\* to the caller: no retry is consumed, no further request is issued, nothing
\* is logged for it and the probe returns neither true nor false.
C4_OtherStatusIsRaised ==
    \A p \in DOMAIN probes : \A k \in 1..Len(probes[p].history) :
        LET pr == probes[p] IN
        pr.history[k] = "s500" =>
            /\ k = Len(pr.history)
            /\ pr.attempts = k
            /\ pr.i = k - 1
            /\ pr.pc = "thrown"
            /\ pr.result = "error"
            /\ Len(pr.logs) = Count(pr.history, "timeout")

C4_Witness ==
    \E p \in DOMAIN probes :
        /\ probes[p].history = <<"timeout", "s500">>
        /\ probes[p].pc = "thrown"
        /\ retryCount > 2

\* What the responses h to a probe's own requests determine, for retry count
\* rc: the first 200 or unexpected answer decides; rc timeouts or 404s give
\* false.
RECURSIVE OutcomeFrom(_, _, _)
OutcomeFrom(h, k, rc) ==
    IF k > Len(h) THEN (IF Len(h) >= rc THEN "false" ELSE "pending")
    ELSE IF h[k] = "s200" THEN "true"
    ELSE IF h[k] \in {"s500", "neterr"} THEN "error"
    ELSE OutcomeFrom(h, k + 1, rc)

C5_OwnResponsesDecide ==
    \A p \in DOMAIN probes :
        probes[p].pc # "sleep" =>
            probes[p].result = OutcomeFrom(probes[p].history, 1, retryCount)

C5_OneProbePerStep ==
    \A p \in DOMAIN probes :
        probes'[p].history # probes[p].history =>
            \A q \in DOMAIN probes : q # p => probes'[q] = probes[q]

\* C5: probes are independent under every interleaving: the result of a probe
\* is the one its own responses determine, and a response (a timeout
\* included) to one probe leaves every sibling probe as it was.
C5_ProbesIndependent ==
    /\ []C5_OwnResponsesDecide
    /\ [][C5_OneProbePerStep]_vars

C5_Witness ==
    \E p, q \in DOMAIN probes :
        /\ p # q
        /\ Count(probes[p].history, "timeout") >= 1
        /\ probes[p].pc = "fetch"
        /\ probes[q].result = "true"
        /\ Len(probes[q].history) > Len(probes[p].history)

-----------------------------------------------------------------------------
(* Properties of splitOnBatches *)

\* A batch that holds 7 items or at least 262144 bytes.
IsFull(batch) == Len(batch) >= 7 \/ SumLength(batch) >= 262144

Oversized(data) == data.length >= 262144

RECURSIVE Flatten(_)
Flatten(bs) == IF bs = <<>> THEN <<>> ELSE bs[1] \o Flatten(Tail(bs))

\* C6: every batch holds at most 7 items.
C6_BatchItemBound ==
    \A b \in 1..Len(batches) : Len(batches[b]) <= 7

C6_Witness ==
    /\ splitPc = "returned"
    /\ Len(batches) >= 2
    /\ Len(batches[1]) = 7
    /\ SumLength(batches[1]) < 262144

\* C7 (as stated): every batch holds at most 262144 bytes, unless it is a
\* single block that by itself exceeds the limit.
C7_BatchByteBound ==
    \A b \in 1..Len(batches) :
        \/ SumLength(batches[b]) <= 262144
        \/ Len(batches[b]) = 1 /\ batches[b][1].length > 262144

\* C7 (amended): the items of a batch that precede its last item hold less
\* than 262144 bytes, so a batch exceeds the limit by less than the size of
\* its last item.
C7_BatchByteBoundBeforeLast ==
    \A b \in 1..Len(batches) :
        batches[b] # <<>> =>
            SumLength(batches[b]) < 262144 + Last(batches[b]).length

C7_Witness ==
    /\ splitPc = "returned"
    /\ \E b \in 1..Len(batches) :
        /\ Len(batches[b]) >= 3
        /\ SumLength(batches[b]) > 262144
        /\ \A j \in 1..Len(batches[b]) : batches[b][j].length < 262144

\* C8: the packing is greedy: a batch is closed only when it is full (7
\* items or at least 262144 bytes), and no batch was kept open once full, so
\* the items before the last item of a batch hold less than 262144 bytes and
\* are fewer than 7.
C8_Greedy ==
    \A b \in 1..Len(batches) :
        /\ b < Len(batches) => IsFull(batches[b])
        /\ \A j \in 1..(Len(batches[b]) - 1) : ~IsFull(SubSeq(batches[b], 1, j))
        /\ b > 1 => batches[b] # <<>>

C8_Witness ==
    /\ splitPc = "returned"
    /\ \E b \in 1..(Len(batches) - 1) :
        /\ Len(batches[b]) < 7
        /\ SumLength(batches[b]) = 262144
        /\ Len(batches[b + 1]) >= 2

C10_OrderPreservingPartition ==
    /\ Flatten(batches) = [k \in 1..pos |-> newBlocks[k].data]
    /\ splitPc = "returned" => pos = Len(newBlocks)

C10_Witness ==
    /\ splitPc = "returned"
    /\ Len(newBlocks) >= 8
    /\ Len(batches) >= 3

\* C11: splitOnBatches returns at least one batch; a batch of the result is
\* empty if and only if the input list is empty, and the result is then
\* exactly one empty batch.
C11_AtLeastOneBatch ==
    splitPc = "returned" =>
        /\ Len(batches) >= 1
        /\ (\E b \in 1..Len(batches) : batches[b] = <<>>) <=> newBlocks = <<>>
        /\ newBlocks = <<>> => batches = << <<>> >>

C11_Witness ==
    /\ splitPc = "returned"
    /\ newBlocks = <<>>
    /\ batches = << <<>> >>

-----------------------------------------------------------------------------
(* Properties of uploadBlocks and of the sender of executeUpload *)

\* The payloads handed to the sender so far, over all calls in order.
Submitted == Flatten([c \in 1..Len(calls) |-> calls[c].args])

\* The payloads of the blocks from k on whose probe returned false.
RECURSIVE AbsentFrom(_)
AbsentFrom(k) ==
    IF k > Len(inBlocks) THEN <<>>
    ELSE IF probes[k].result = "false"
         THEN <<inBlocks[k].data>> \o AbsentFrom(k + 1)
         ELSE AbsentFrom(k + 1)

IsPrefix(a, b) == Len(a) <= Len(b) /\ SubSeq(b, 1, Len(a)) = a

\* The number of payloads in the first j batches.
UpTo(j) == CountItems(SubSeq(batches, 1, j))

\* The last call that has settled.
LastSettled ==
    IF calls # <<>> /\ Last(calls).outcome = "pending"
    THEN Len(calls) - 1 ELSE Len(calls)

FailedOnSender == upPc = "rejected" /\ upError # ProbeError

\* An expected error as the claims describe it: no contract code or no such
\* method on the target account.
DescribedAsExpected(e) ==
    \/ e.type = "ActionError" /\ e.fce = "MethodNotFound"
    \/ e.type = "ActionError" /\ e.fce = "CodeDoesNotExist"
    \/ \E k \in 1..Len(e.message) :
          e.message[k] \in {"Cannot find contract code for account",
                            "Contract method is not found"}

\* C12: at most one call of the sender is pending, the c-th call is the call
\* for batch c, and a call is made only after every earlier call resolved.
C12_SequentialSubmission ==
    /\ Cardinality(PendingCalls) <= 1
    /\ Len(calls) <= Len(batches)
    /\ \A c \in 1..Len(calls) :
        /\ calls[c].batch = c
        /\ c > 1 => calls[c - 1].outcome \in {"ok", "swallowed"}

C12_Witness ==
    /\ Len(calls) = 2
    /\ calls[1].outcome = "ok"
    /\ calls[2].outcome = "pending"

\* C13: every call of the sender receives the payloads of its batch, in batch
\* order, each of them the data buffer of an input block.
C13_SenderReceivesPayloads ==
    \A c \in 1..Len(calls) :
        /\ calls[c].args = batches[c]
        /\ \A j \in 1..Len(calls[c].args) :
            \E k \in 1..Len(inBlocks) : calls[c].args[j] = inBlocks[k].data

C13_Witness ==
    /\ Len(calls) = 1
    /\ Len(inBlocks) = 2
    /\ calls[1].args = <<inBlocks[1].data, inBlocks[2].data>>

\* C14: the sender is called only after every probe of the probing phase has
\* returned.
C14_NoSendBeforeProbesDone ==
    calls # <<>> =>
        \A p \in DOMAIN probes : probes[p].pc = "returned"

C14_Witness ==
    /\ Len(calls) = 1
    /\ Len(probes) = 2
    /\ probes[1].result = "false"
    /\ probes[2].result = "true"
    /\ probes[1].history = <<"timeout">>

\* C15: the payloads submitted are, in input order, those of the blocks whose
\* probe returned false: a prefix of them while the upload runs, all of them
\* once it is done, each once, whatever their CIDs.
C15_SubmitsAbsentBlocksInOrder ==
    /\ calls # <<>> => IsPrefix(Submitted, AbsentFrom(1))
    /\ upPc = "done" => Submitted = AbsentFrom(1)

C15_Witness ==
    /\ upPc = "done"
    /\ Len(inBlocks) = 2
    /\ probes[1].result = "true"
    /\ probes[2].result = "false"
    /\ Submitted = <<inBlocks[2].data>>
    /\ inBlocks[1].cid = inBlocks[2].cid

\* C16 (as stated): when every probed block is reported as existing, the
\* sender is never called.
C16_NoSendWhenAllExist ==
    (/\ Len(inBlocks) >= 1
     /\ \A p \in DOMAIN probes : probes[p].result = "true")
    => calls = <<>>

\* C17: a call of the sender that rejects is the last call: uploadBlocks has
\* rejected with its error, no later batch is submitted, and the reports are
\* those of the batches before it.
C17_FatalErrorAborts ==
    \A c \in 1..Len(calls) :
        calls[c].outcome = "rejected" =>
            /\ c = Len(calls)
            /\ upPc = "rejected"
            /\ upError = lastError
            /\ upError # NoError
            /\ Len(reports) = c - 1
            /\ \A j \in 1..(c - 1) :
                reports[j] = [currentBlocks |-> UpTo(j),
                              totalBlocks |-> Len(newBlocks)]

C17_Witness ==
    /\ Len(batches) = 2
    /\ Len(calls) = 1
    /\ calls[1].outcome = "rejected"
    /\ reports = <<>>
    /\ ~DescribedAsExpected(lastError)

\* C18 (as stated): an upload never rejects with an expected error of the
\* account's call: the error is swallowed and the upload goes on.
C18_ExpectedErrorNeverRejects ==
    FailedOnSender => ~DescribedAsExpected(upError)

\* C19: isExpectedNearError accepts exactly the errors described: the sender
\* of executeUpload swallows the error of a call if and only if it is one of
\* them, and throws every other error again.
C19_ExpectedErrorsExactly ==
    (senderKind = "executeUpload" /\ lastError # NoError) =>
        /\ calls[LastSettled].outcome \in {"swallowed", "rejected"}
        /\ calls[LastSettled].outcome = "swallowed"
              <=> DescribedAsExpected(lastError)

C19_Witness ==
    /\ senderKind = "executeUpload"
    /\ lastError = [type |-> "ActionError", fce |-> "none",
                    message |-> <<"ServerTransactionError">>]
    /\ calls[LastSettled].outcome = "rejected"

\* C20: there is one report per resolved call of the sender; report j has
\* the number of payloads of the first j batches and the number of blocks to
\* upload, which no report exceeds; the last report of a completed upload has
\* currentBlocks = totalBlocks.
C20_ProgressReports ==
    /\ Len(reports) =
          Cardinality({c \in 1..Len(calls) :
                          calls[c].outcome \in {"ok", "swallowed"}})
    /\ \A j \in 1..Len(reports) :
        /\ reports[j].currentBlocks = UpTo(j)
        /\ reports[j].totalBlocks = Len(newBlocks)
        /\ reports[j].currentBlocks <= reports[j].totalBlocks
        /\ j > 1 => reports[j - 1].currentBlocks <= reports[j].currentBlocks
    /\ upPc = "done" =>
        /\ Len(reports) = Len(batches)
        /\ reports # <<>> => Last(reports).currentBlocks = Last(reports).totalBlocks

C20_Witness ==
    /\ upPc = "done"
    /\ reports = <<[currentBlocks |-> 2, totalBlocks |-> 2]>>

-----------------------------------------------------------------------------
(* Properties of uploadFiles and uploadCAR *)

\* The root CID of a list of files, as a function of the list alone.
RootCidOf(fs) == addBlocksForDir(FileLoop(EmptyRoot, <<>>, fs, 1).dir).cid

\* C21: uploadFiles has resolved only when a call was made for every batch
\* and every call resolved, and then with the display string of the root
\* CID; when it has rejected, it is with the error that ended it; before, it
\* has no result.
C21_ResolvesAfterAllBatches ==
    entry = "uploadFiles" =>
        /\ entryPc = "resolved" =>
            /\ upPc = "done"
            /\ Len(calls) = Len(batches)
            /\ \A c \in 1..Len(calls) :
                  calls[c].outcome \in {"ok", "swallowed"}
            /\ Submitted = AbsentFrom(1)
            /\ entryResult = [kind |-> "cid", value |-> cidToString(rootCid)]
        /\ entryPc = "rejected" =>
            /\ entryResult.kind = "error"
            /\ upPc = "rejected" => entryResult.value = upError
            /\ upPc # "rejected" => calls = <<>> /\ probes = <<>>
        /\ entryPc = "running" =>
            /\ entryResult = NoResult
            /\ upPc \in {"probing", "sending"}

C21_Witness ==
    /\ entry = "uploadFiles"
    /\ entryPc = "resolved"
    /\ Len(inBlocks) = 4
    /\ Len(Submitted) = 4
    /\ entryResult.value = cidToString(Last(inBlocks).cid)

\* C22: the root CID uploadFiles returns is the root CID of its list of
\* files, whatever the gateway answered and whatever was submitted.
C22_RootCidIsFunctionOfInput ==
    (entry = "uploadFiles" /\ entryPc = "resolved") =>
        entryResult = [kind |-> "cid", value |-> cidToString(RootCidOf(files))]

C22_Witness ==
    /\ entry = "uploadFiles"
    /\ entryPc = "resolved"
    /\ Len(files) = 2
    /\ \A p \in DOMAIN probes : probes[p].result = "true"
    /\ Submitted = <<>>
    /\ entryResult.value = cidToString(RootCidOf(files))

IsDirEntry(e) == "links" \in DOMAIN e

\* The number of directories of a tree, its root included.
RECURSIVE NumDirs(_)
RECURSIVE NumDirsFrom(_, _)
NumDirsFrom(links, k) ==
    IF k > Len(links) THEN 0
    ELSE (IF IsDirEntry(links[k]) THEN NumDirs(links[k]) ELSE 0)
         + NumDirsFrom(links, k + 1)

NumDirs(dir) == 1 + NumDirsFrom(dir.links, 1)

AlwaysAnswered404 ==
    \A p \in DOMAIN probes : probes[p].history = <<"s404">>

\* C24: the queue of uploadFiles holds one block per file, in input order,
\* then one block per directory of the tree, the root last; for a.txt and
\* dir/b.txt with a gateway that answers 404 these are 4 blocks in 1 batch,
\* submitted by one call of the sender with 4 payloads.
C24_OneBlockPerFileAndDirectory ==
    (entry = "uploadFiles" /\ treePc = "built") =>
        /\ Len(queued) = Len(files) + NumDirs(rootDir)
        /\ \A i \in 1..Len(files) : queued[i] = FileBlock(files[i])
        /\ Last(queued).cid = rootCid
        /\ inBlocks = queued
        /\ (/\ Len(files) = 2
            /\ files[1].name = <<"a.txt">>
            /\ files[2].name = <<"dir", "/", "b.txt">>
            /\ AlwaysAnswered404
            /\ upPc = "done")
           => /\ Len(queued) = 4
              /\ Len(batches) = 1
              /\ Len(calls) = 1
              /\ calls[1].args = [k \in 1..4 |-> queued[k].data]

C24_Witness ==
    /\ entry = "uploadFiles"
    /\ upPc = "done"
    /\ Len(files) = 2
    /\ files[1].name = <<"a.txt">>
    /\ files[2].name = <<"dir", "/", "b.txt">>
    /\ AlwaysAnswered404
    /\ Len(probes) = 4
    /\ Len(calls) = 1
    /\ Len(calls[1].args) = 4

\* No directory of the tree has two directory entries of one name.
RECURSIVE NoTwinDirs(_)
NoTwinDirs(dir) ==
    /\ \A j, k \in 1..Len(dir.links) :
          (j < k /\ IsDirEntry(dir.links[j]) /\ IsDirEntry(dir.links[k]))
              => dir.links[j].name # dir.links[k].name
    /\ \A k \in 1..Len(dir.links) :
          IsDirEntry(dir.links[k]) => NoTwinDirs(dir.links[k])

\* The directory a path of directory names leads to.
RECURSIVE DirAt(_, _)
DirAt(dir, path) ==
    IF path = <<>> THEN dir
    ELSE LET ks == {k \in 1..Len(dir.links) :
                       IsDirEntry(dir.links[k]) /\ dir.links[k].name = Head(path)}
         IN IF ks = {} THEN Thrown
            ELSE DirAt(dir.links[CHOOSE k \in ks : TRUE], Tail(path))

\* The file entry of a file, before and after addBlocksForDir, is a link of
\* the directory its path names.
FileInPlace(file) ==
    LET sp == Split(file.name)
        d == DirAt(rootDir, SubSeq(sp, 1, Len(sp) - 1))
    IN /\ ~IsThrown(d)
       /\ \E k \in 1..Len(d.links) : d.links[k] = FileEntry(file)

\* C25: at every point of the tree builder no directory holds two directory
\* entries with the same name, and every file consumed so far is a link of
\* the one directory its path names.
C25_SharedDirectoriesAreMerged ==
    /\ NoTwinDirs(rootDir)
    /\ \A i \in 1..filePos : FileInPlace(files[i])

C25_Witness ==
    /\ treePc = "built"
    /\ Len(files) = 3
    /\ files[1].name = <<"dir", "/", "b.txt">>
    /\ files[2].name = <<"a.txt">>
    /\ files[3].name = <<"dir", "/", "c.txt">>
    /\ Len(rootDir.links) = 2
    /\ Len(rootDir.links[1].links) = 2

\* The block of a directory without links.
EmptyDirNode == writePBNode(<<>>, <<8, 1>>)

\* C26: for the empty list uploadFiles queues one block, the root node with
\* no links, and resolves with the display string of the CID of that node.
C26_EmptyInputQueuesRoot ==
    (entry = "uploadFiles" /\ files = <<>> /\ treePc = "built") =>
        /\ rootDir.links = <<>>
        /\ rootCid = packCID(computeHash(EmptyDirNode), CODEC_DAG_PB)
        /\ queued = <<[data |-> EmptyDirNode, cid |-> rootCid]>>
        /\ inBlocks = queued
        /\ entryPc = "resolved" =>
              entryResult = [kind |-> "cid", value |-> cidToString(rootCid)]

C26_Witness ==
    /\ entry = "uploadFiles"
    /\ files = <<>>
    /\ entryPc = "resolved"
    /\ Submitted = <<EmptyDirNode>>

\* C27 (as stated): with retryCount omitted every block is still probed
\* before anything is submitted, as with the default retryCount.
C27_OmittedRetryCountStillProbes ==
    ("retryCount" \in omitted /\ upPc \in {"sending", "done"}) =>
        \A p \in DOMAIN probes : probes[p].attempts >= 1

\* C28 (as stated): an upload of files with log omitted never fails for the
\* lack of it.
C28_OmittedLogNeverFails ==
    (entry = "uploadFiles" /\ "log" \in omitted) =>
        ~(entryPc = "rejected" /\ entryResult.value = LogError)

\* The block of a record of an archive.
BlockOfRecord(rec) == [data |-> rec.data.payload, cid |-> rec.data.cid]

\* C29: the blocks of an archive are its records after the first, in archive
\* order: there is one probe for each of them in the probing phase of
\* blocksToUpload, and what is probed later or submitted is among them.
C29_HeaderSkippedOnly ==
    (entry = "uploadCAR" /\ car.decodes /\ "log" \notin omitted) =>
        /\ carBlocks =
              [k \in 1..(Len(car.records) - 1) |-> BlockOfRecord(car.records[k + 1])]
        /\ upPc = "carProbing" => Len(probes) = Len(car.records) - 1
        /\ \A k \in 1..Len(inBlocks) :
              \E j \in 2..Len(car.records) :
                  /\ inBlocks[k].data = car.records[j].data.payload
                  /\ inBlocks[k].cid = car.records[j].data.cid
        /\ \A k \in 1..Len(Submitted) :
              \E j \in 2..Len(car.records) :
                  Submitted[k] = car.records[j].data.payload

C29_Witness ==
    /\ entry = "uploadCAR"
    /\ upPc = "done"
    /\ Len(car.records) = 3
    /\ Submitted = <<car.records[2].data.payload, car.records[3].data.payload>>

\* C30: for an archive that cannot be decoded uploadCAR has rejected, with
\* the decoding error when it was given a log, and there is no probe and no
\* call of the sender.
C30_DecodeErrorBeforeAnyProbe ==
    (entry = "uploadCAR" /\ ~car.decodes) =>
        /\ entryPc = "rejected"
        /\ "log" \notin omitted =>
              entryResult = [kind |-> "error", value |-> DecodeError]
        /\ probes = <<>>
        /\ calls = <<>>
        /\ reports = <<>>
        /\ upPc = "idle"

C30_Witness ==
    /\ entry = "uploadCAR"
    /\ ~car.decodes
    /\ Len(car.records) = 3
    /\ entryResult = [kind |-> "error", value |-> DecodeError]

\* C31: when uploadCAR has resolved, the value it resolved with is a CID
\* string, as the value of uploadFiles is.
C31_ArchiveResolvesWithRootCid ==
    (entry = "uploadCAR" /\ entryPc = "resolved") => entryResult.kind = "cid"

\* The directories of a tree, its root included.
RECURSIVE DirsOf(_)
RECURSIVE DirsFrom(_, _)
DirsFrom(links, k) ==
    IF k > Len(links) THEN {}
    ELSE (IF IsDirEntry(links[k]) THEN DirsOf(links[k]) ELSE {})
         \cup DirsFrom(links, k + 1)

DirsOf(dir) == {dir} \cup DirsFrom(dir.links, 1)

\* C32: the CID of every queued block is the packing, with version 1, of
\* the sha256 of its payload: a file block holds the bytes of the file as
\* given, with the raw codec, and a directory block holds the encoding of the
\* links of a directory of the tree, with the dag-pb codec.
C32_QueuedBlocksRehashToTheirCid ==
    \A i \in 1..Len(queued) :
        /\ queued[i].cid.version = 1
        /\ IF i <= filePos
           THEN /\ queued[i].data = files[i].content
                /\ queued[i].cid =
                      packCID(computeHash(queued[i].data), CODEC_RAW)
           ELSE /\ \E d \in DirsOf(rootDir) :
                      queued[i].data = writePBNode(d.links, <<8, 1>>)
                /\ queued[i].cid =
                      packCID(computeHash(queued[i].data), CODEC_DAG_PB)

C32_Witness ==
    /\ treePc = "built"
    /\ Len(files) = 2
    /\ files[1].name = <<"dir", "/", "sub", "/", "d.txt">>
    /\ files[2].name = <<"a.txt">>
    /\ Len(queued) = 5
    /\ queued[2].cid.codec = CODEC_RAW
    /\ queued[3].cid.codec = CODEC_DAG_PB

\* The links the encoder was given for the directory block at position i of
\* the queue.
EncodedLinks(i) == queued[i].data.id[2]

\* C33: every link given to the encoder for a directory block carries a
\* name, a CID and a size, be it the link of a file or of a subdirectory.
C33_EncodedLinksCarryNameCidSize ==
    \A i \in (filePos + 1)..Len(queued) :
        \A k \in 1..Len(EncodedLinks(i)) :
            {"name", "cid", "size"} \subseteq DOMAIN EncodedLinks(i)[k]

\* No directory of the tree has two entries of one name, files and
\* directories alike.
RECURSIVE NoTwinEntries(_)
NoTwinEntries(dir) ==
    /\ \A j, k \in 1..Len(dir.links) :
          j < k => dir.links[j].name # dir.links[k].name
    /\ \A k \in 1..Len(dir.links) :
          IsDirEntry(dir.links[k]) => NoTwinEntries(dir.links[k])

\* C34: for every input list the tree builder does not throw, and no
\* directory of the tree holds two entries with the same name.
C34_EntriesKeyedByName ==
    /\ treePc # "thrown"
    /\ NoTwinEntries(rootDir)

\* The positions of the queue that hold the block of directory d.
BlockPositions(d) == {i \in (filePos + 1)..Len(queued) : queued[i].cid = d.cid}

\* C35: the queue holds the blocks of the files consumed, in input order;
\* once the tree is built these are followed by one block for every
\* directory, the block of a directory after the blocks of all directories
\* below it, and the block of the root is the last of the queue.
C35_FilesThenDirectoriesInPostOrder ==
    /\ \A i \in 1..filePos : queued[i] = FileBlock(files[i])
    /\ treePc = "files" => Len(queued) = filePos
    /\ treePc = "built" =>
          /\ \A i \in (filePos + 1)..Len(queued) :
                \E d \in DirsOf(rootDir) : i \in BlockPositions(d)
          /\ \A d \in DirsOf(rootDir) :
                /\ BlockPositions(d) # {}
                /\ \A s \in DirsOf(d) \ {d} :
                      \A i \in BlockPositions(s), j \in BlockPositions(d) : i < j
          /\ BlockPositions(rootDir) = {Len(queued)}

C35_Witness ==
    /\ treePc = "built"
    /\ Len(files) = 2
    /\ files[1].name = <<"dir", "/", "sub", "/", "d.txt">>
    /\ files[2].name = <<"dir", "/", "b.txt">>
    /\ Len(queued) = 5
    /\ queued[3].cid = rootDir.links[1].links[1].cid
    /\ queued[4].cid = rootDir.links[1].cid
    /\ queued[5].cid = rootCid

\* Probe p has thrown on a status other than 200 and 404.
ThrewOnStatus(p) ==
    /\ probes[p].pc = "thrown"
    /\ probes[p].history # <<>>
    /\ Last(probes[p].history) = "s500"

SubmittedSet == {Submitted[k] : k \in 1..Len(Submitted)}

\* Block k of the archive was reported absent by the first pass and by the
\* second.
AbsentInBothPasses(k) ==
    /\ ~carStatus[k].uploaded
    /\ \E j \in 1..Len(inBlocks) :
          /\ inBlocks[j].cid = carBlocks[k].cid
          /\ probes[j].result = "false"

\* C37: once the probes of blocksToUpload have all returned, uploadBlocks is
\* called with the blocks they reported absent and probes each of these
\* again; only blocks reported absent by both passes are handed to the
\* sender, and when the upload is done all of them have been.
C37_SubmittedIffAbsentInBothPasses ==
    (entry = "uploadCAR" /\ carStatus # <<>>) =>
        /\ Len(carStatus) = Len(carBlocks)
        /\ \A k \in 1..Len(carBlocks) :
              /\ carStatus[k].cid = carBlocks[k].cid
              /\ carStatus[k].data = carBlocks[k].data
        /\ inBlocks = SelectSeq(carStatus, LAMBDA b : ~b.uploaded)
        /\ Len(probes) = Len(inBlocks)
        /\ \A k \in 1..Len(carBlocks) :
              carBlocks[k].data \in SubmittedSet => AbsentInBothPasses(k)
        /\ upPc = "done" =>
              \A k \in 1..Len(carBlocks) :
                  AbsentInBothPasses(k) => carBlocks[k].data \in SubmittedSet

C37_Witness ==
    /\ entry = "uploadCAR"
    /\ upPc = "done"
    /\ Len(carBlocks) = 2
    /\ ~carStatus[1].uploaded
    /\ ~carStatus[2].uploaded
    /\ probes[1].result = "true"
    /\ probes[2].result = "false"
    /\ Submitted = <<carBlocks[2].data>>

====
